---- MODULE Spec2Model ----
(***************************************************************************)
(* Model of the browser-side message delivery client (message-polling.js), *)
(* the chat transcript store (chat functions) and the voice transcript     *)
(* handler (voice-functions.js).                                           *)
(*                                                                         *)
(* Time.  Date.now() is not kept as an absolute number: the model keeps    *)
(* sinceActivity = Date.now() - lastActivity and, for every pending        *)
(* setTimeout, the milliseconds left until it is due.  Tick(d) lets d ms   *)
(* pass.  JavaScript is single threaded: every action below is one task of *)
(* the event loop (a call from the page, a timer callback, or the          *)
(* continuation of an awaited fetch), run to completion.                   *)
(***************************************************************************)
EXTENDS Integers, Sequences, FiniteSets, TLC

VARIABLES
    \* ---- message-polling.js module state (lines 8-16)
    messagePollingInterval, \* the timer handle: [state, delay, left]
    lastMessageCount,
    currentSessionId,
    sinceActivity,          \* Date.now() - lastActivity
    currentPollingInterval,
    consecutiveEmptyPolls,
    isVoiceActive,
    isChatActive,
    isPaused,
    \* ---- event loop: callbacks and requests that are outstanding
    chatActiveTimers,       \* ms left of each setTimeout(() => isChatActive = false, 300000)
    deferredPending,        \* a requestIdleCallback / setTimeout(.., 0) callback is queued
    inFlight,               \* fetches of /api/messages/{id} not yet answered (inbox snapshots)
    \* ---- the page and the backend
    vapiConfigSessionId,    \* window.VAPI_CONFIG.browserSessionId
    browserSessionId,       \* window.BROWSER_SESSION_ID
    inbox,                  \* the backend's messages for the session, newest first
    nextMessageId,
    chatMessagesEl,         \* document.getElementById('chatMessages') exists
    chatContainer,          \* the element 'chatContainer': [exists, scrollTop, clientHeight, scrollHeight]
    otherChatHistory,       \* window.chatHistory of a second tab on the same origin: [loaded, entries]
    \* ---- the voice call (voice-functions.js) and sendChatMessage (chat functions)
    vapi,                   \* window.vapi is set: the SDK has been started
    isCallActive,           \* window.isCallActive
    vapiWidgetActive,       \* .vapi-widget carries vapi-call-active, vapi-speaking or vapi-listening
    chatRequests,           \* POST /api/chat requests not yet answered: ms left to their abort
    typingIndicator,        \* the typing indicator is shown
    lastSend,               \* what the last sendChatMessage call, or its continuation, did
    deletesInFlight,        \* DELETE /api/messages/{id} requests not yet answered: [success, ids]
    clearedIds,             \* ids of the messages that clearSessionMessages calls have cleared
    \* ---- the floating voice button (draggable-voice-button.js)
    floatingButton,         \* [isDragging, dragStarted, moved, longPressTimer, startX, startY]
    touch,                  \* the finger on the screen: [active, onButton, x, y, x0, y0, held, far]
    \* ---- transcript store
    chatHistory,            \* window.chatHistory: [loaded, entries]
    localStorage,           \* key -> [present, value]
    conversationContext,    \* VAPI_CONFIG.assistantOverrides.variableValues.conversation_context
    processedTranscripts,   \* window.processedTranscripts: set of "role-content" strings
    cleanupTimers,          \* setTimeout(() => processedTranscripts.delete(c), 10000): [content, left]
    \* ---- history variables (observers; no code reads them)
    pollingStarted,         \* the first checkForNewMessages() call was made
    pageUnloaded,           \* the beforeunload handler has run
    displayed,              \* ids of inbox messages handed to displayNewMessage, in order
    lastOutcome,            \* what the task just run was: a poll ended "ok", "nosuccess" or "error",
                            \* a "mark", "voice-on" or "voice-off" signal ("mark-resume",
                            \* "voice-resume" when it found the client paused), a "check"
                            \* sent by the timer's callback; else "none"
    lastWrites,             \* the values localStorage.setItem stored during the last handler that wrote
    lastLoad,               \* what the last loadChatHistoryFromStorage() call by the page returned
    lastTranscript,         \* what the last handleVoiceTranscript call saw and did
    delivered,              \* the (role, content) pairs a voice transcript or a poll brought: once, twice
    elapsed,                \* ms since the page loaded, kept up to the deduplication window
    calls                   \* how many transcripts and direct appends the page has made

pollVars == <<messagePollingInterval, lastMessageCount, currentSessionId, sinceActivity,
              currentPollingInterval, consecutiveEmptyPolls, isVoiceActive, isChatActive,
              isPaused>>
loopVars == <<chatActiveTimers, deferredPending, inFlight>>
callVars == <<vapi, isCallActive, vapiWidgetActive>>
sendVars == <<chatRequests, typingIndicator, lastSend>>
touchVars == <<floatingButton, touch>>
deleteVars == <<deletesInFlight, clearedIds>>
surfaceVars == <<chatContainer, otherChatHistory, callVars, sendVars, touchVars>>
pageVars == <<vapiConfigSessionId, browserSessionId, inbox, nextMessageId, chatMessagesEl,
              surfaceVars, deleteVars>>
chatVars == <<chatHistory, localStorage, lastWrites, conversationContext, lastLoad>>
voiceVars == <<processedTranscripts, cleanupTimers, lastTranscript>>
histVars == <<pollingStarted, pageUnloaded, displayed, delivered, elapsed, calls>>
vars == <<pollVars, loopVars, pageVars, chatVars, voiceVars, histVars, lastOutcome>>

----------------------------------------------------------------------------
\* Bounds of the model
MaxEmptyPolls == 6      \* Spec: no fetch is issued once consecutiveEmptyPolls has passed this
LongEmptyPolls == 27    \* SpecBackoff: the same, for the long idle runs
MaxInFlight == 2        \* fetches outstanding at once
MaxMessages == 1        \* Spec: messages the backend ever puts in the inbox
InboxMessages == 3      \* SpecInbox: the same, for the claims about what a poll displays
MaxChatTimers == 1      \* outstanding chat-activity timeouts
MaxTranscripts == 2     \* voice transcripts delivered in one behaviour
MaxSends == 1           \* direct addChatMessageWithSource calls in one behaviour

\* Program constants
StartInterval == 15000
ActivityInterval == 8000
ChatActiveTimeout == 300000
PauseIdleMs == 600000
PauseEmptyPolls == 5
VoiceChatInterval == 5000
RecentInterval == 8000
RecentMs == 120000
MediumInterval == 10000
IdleInterval == 15000
DampenEmptyPolls == 25
MaxIntervalMs == 20000
ErrorPenalty == 2
HistoryCap == 30
DedupWindowMs == 10000
ChatRequestTimeout == 300000
LongPressDelay == 500
MoveThreshold == 10

NULL == "null"
Min(a, b) == IF a < b THEN a ELSE b
Max(a, b) == IF a > b THEN a ELSE b

----------------------------------------------------------------------------
\* Strings are sequences of one-character strings, so that trim() and
\* split('-') act on them as they do in the code.
Blank(ch) == ch = " "

RECURSIVE TrimStart(_)
TrimStart(s) == IF s # <<>> /\ Blank(Head(s)) THEN TrimStart(Tail(s)) ELSE s

RECURSIVE TrimEnd(_)
TrimEnd(s) == IF s # <<>> /\ Blank(s[Len(s)]) THEN TrimEnd(SubSeq(s, 1, Len(s) - 1)) ELSE s

\* String.prototype.trim
Trim(s) == TrimEnd(TrimStart(s))

\* s.split('-'): the fields between the separators, all of them
RECURSIVE SplitAll(_, _)
SplitAll(s, field) ==
    IF s = <<>> THEN <<field>>
    ELSE IF Head(s) = "-" THEN <<field>> \o SplitAll(Tail(s), <<>>)
    ELSE SplitAll(Tail(s), Append(field, Head(s)))

\* s.split('-', limit): the first `limit` fields; the rest of the string is dropped
SplitLimit(s, limit) ==
    LET all == SplitAll(s, <<>>) IN SubSeq(all, 1, Min(limit, Len(all)))

----------------------------------------------------------------------------
\* Transcript store (chat functions).  A chat state c is the record
\* [loaded, entries, storage, writes, context]: window.chatHistory (loaded =
\* FALSE while it is undefined), the localStorage entries chatHistory_{key}, the
\* values setItem stored during the handler, and the conversation context
\* [present, value] (present = FALSE when the page has no
\* VAPI_CONFIG.assistantOverrides.variableValues).
StorageKeys == {"default", "s1", "s2"}
NoEntry == [present |-> FALSE, value |-> <<>>]

\* `chatHistory_${window.BROWSER_SESSION_ID || 'default'}`
StorageKey(sid) == IF sid = NULL THEN "default" ELSE sid

PresentKeys(storage) == {k \in StorageKeys : storage[k].present}

\* The key sortedKeys[0] may turn out to be: the comparator parses split('_')[1]
\* of each key, which is not a number for these keys, so the order is the
\* browser's order of Object.keys(localStorage).
FallbackChoices(storage) ==
    IF PresentKeys(storage) = {} THEN {NULL} ELSE PresentKeys(storage)

\* localStorage.setItem(key, JSON.stringify(value))
SetItem(c, key, value) ==
    [c EXCEPT !.storage = [@ EXCEPT ![key] = [present |-> TRUE, value |-> value]],
              !.writes = Append(@, value)]

saveChatHistoryToStorage(c, sid) == SetItem(c, StorageKey(sid), c.entries)

\* window.chatHistory = loadChatHistoryFromStorage(); fb is the key the search
\* for the latest transcript of any session ends on
loadChatHistoryFromStorage(c, sid, fb) ==
    LET own == c.storage[StorageKey(sid)] IN
    IF own.present
    THEN [c EXCEPT !.loaded = TRUE, !.entries = own.value]
    ELSE IF fb = NULL
    THEN [c EXCEPT !.loaded = TRUE, !.entries = <<>>]
    ELSE LET stored == c.storage[fb].value
             copied == IF sid # NULL THEN SetItem(c, sid, stored) ELSE c
         IN [copied EXCEPT !.loaded = TRUE, !.entries = stored]

\* window.chatHistory.slice(-30)
SliceLast(s, n) == IF Len(s) > n THEN SubSeq(s, Len(s) - n + 1, Len(s)) ELSE s

\* 'Keine vorherigen Nachrichten'
NoPreviousMessages ==
    <<"K", "e", "i", "n", "e", " ", "v", "o", "r", "h", "e", "r", "i", "g", "e", "n", " ",
      "N", "a", "c", "h", "r", "i", "c", "h", "t", "e", "n">>
UserLabel == <<"U", "s", "e", "r">>
AssistantLabel == <<"A", "s", "s", "i", "s", "t", "a", "n", "t">>

\* `${msg.role === 'user' ? 'User' : 'Assistant'}: ${msg.content}`
ContextLine(msg) ==
    (IF msg.role = "user" THEN UserLabel ELSE AssistantLabel) \o <<":", " ">> \o msg.content

\* lines.join('\n')
RECURSIVE JoinLines(_)
JoinLines(lines) ==
    IF lines = <<>> THEN <<>>
    ELSE IF Len(lines) = 1 THEN lines[1]
    ELSE lines[1] \o <<"\n">> \o JoinLines(Tail(lines))

\* (window.chatHistory || []).slice(-30).map(..).join('\n')
JoinedContext(entries) ==
    LET chat == SliceLast(entries, HistoryCap)
    IN JoinLines([i \in 1..Len(chat) |-> ContextLine(chat[i])])

\* the same without the default for the empty string
ConversationContextOfJoined(entries) == JoinedContext(entries)

\* conversationContext || 'Keine vorherigen Nachrichten'
ConversationContextOf(entries) ==
    IF JoinedContext(entries) = <<>> THEN NoPreviousMessages ELSE JoinedContext(entries)

updateConversationContext(c) ==
    IF ~c.context.present THEN c
    ELSE [c EXCEPT !.context.value = ConversationContextOf(c.entries)]

NewMessage(message, sender, source) ==
    [role |-> IF sender = "user" THEN "user" ELSE "assistant",
     content |-> message, source |-> source]

addChatMessageWithSource(c, message, sender, source, sid, fb, el) ==
    IF ~el THEN c
    ELSE LET c1 == IF ~c.loaded THEN loadChatHistoryFromStorage(c, sid, fb) ELSE c
             pushed == Append(c1.entries, NewMessage(message, sender, source))
             c2 == [c1 EXCEPT !.entries = SliceLast(pushed, HistoryCap)]
         IN updateConversationContext(saveChatHistoryToStorage(c2, sid))

\* localStorage.removeItem(key); window.chatHistory = []
clearChatHistory(c, sid) ==
    [c EXCEPT !.storage = [@ EXCEPT ![StorageKey(sid)] = NoEntry],
              !.loaded = TRUE, !.entries = <<>>]

\* if (!window.chatHistory) window.chatHistory = load..(); updateConversationContext()
initializeChatHistory(c, sid, fb) ==
    updateConversationContext(IF ~c.loaded THEN loadChatHistoryFromStorage(c, sid, fb) ELSE c)

ChatState == [loaded |-> chatHistory.loaded, entries |-> chatHistory.entries,
              storage |-> localStorage, writes |-> <<>>, context |-> conversationContext]

\* Writes the chat state a handler ended with back to the variables.
SetChat(c) ==
    /\ chatHistory' = [loaded |-> c.loaded, entries |-> c.entries]
    /\ localStorage' = c.storage
    /\ lastWrites' = IF c.writes = <<>> THEN lastWrites ELSE c.writes
    /\ conversationContext' = c.context
    /\ UNCHANGED lastLoad

----------------------------------------------------------------------------
\* Delivery client (message-polling.js)

NoTimer == [state |-> "none", delay |-> 0, left |-> 0]
TimerPending == messagePollingInterval.state = "pending"

\* A poll state p is the record [timer, paused, interval]: the fields a poll
\* cycle changes through pausePolling, scheduleNextPoll and adjustPollingFrequency.
PollState == [timer |-> messagePollingInterval, paused |-> isPaused,
              interval |-> currentPollingInterval]

\* setTimeout(callback, delay)
SetTimeout(delay) == [state |-> "pending", delay |-> delay, left |-> delay]

\* if (messagePollingInterval) { clearTimeout(..); messagePollingInterval = null; }
stopMessagePolling(p) ==
    IF p.timer.state # "none" THEN [p EXCEPT !.timer = NoTimer] ELSE p

pausePolling(p) ==
    IF ~p.paused /\ p.timer.state # "none"
    THEN [p EXCEPT !.timer = NoTimer, !.paused = TRUE]
    ELSE p

\* Variant: the next poll is queued at once, with no delay.
scheduleNextPollAtOnce(p) == [p EXCEPT !.timer = SetTimeout(0)]

\* clears the handle's timer, then arms a new one with the interval current at the call
scheduleNextPoll(p) == [p EXCEPT !.timer = SetTimeout(p.interval)]

\* Variant: the resume clears the pause and arms no timer.
resumePollingNoTimer(p) ==
    IF p.paused THEN [p EXCEPT !.paused = FALSE] ELSE p

\* if (isPaused) { isPaused = false; scheduleNextPoll(); }
resumePolling(p) ==
    IF p.paused THEN scheduleNextPoll([p EXCEPT !.paused = FALSE]) ELSE p

\* Variant: the idle test takes 600,000 ms and 5 empty polls as enough.
PauseConditionInclusive(voice, chat, timeSinceActivity, emptyPolls) ==
    ~voice /\ ~chat /\ timeSinceActivity >= PauseIdleMs /\ emptyPolls >= PauseEmptyPolls

\* the idle test that opens adjustPollingFrequency
PauseCondition(voice, chat, timeSinceActivity, emptyPolls) ==
    ~voice /\ ~chat /\ timeSinceActivity > PauseIdleMs /\ emptyPolls > PauseEmptyPolls

\* Variant: the voice/chat tier polls every 3 seconds, as the file's header
\* comment has it.
TierIntervalThreeSeconds(voice, chat, timeSinceActivity) ==
    IF voice \/ chat THEN 3000
    ELSE IF timeSinceActivity < RecentMs THEN RecentInterval
    ELSE IF timeSinceActivity < PauseIdleMs THEN MediumInterval
    ELSE IdleInterval

\* the if / else-if chain of adjustPollingFrequency
TierInterval(voice, chat, timeSinceActivity) ==
    IF voice \/ chat THEN VoiceChatInterval
    ELSE IF timeSinceActivity < RecentMs THEN RecentInterval
    ELSE IF timeSinceActivity < PauseIdleMs THEN MediumInterval
    ELSE IdleInterval

\* Variant: the slow-down multiplies by 1.5.
DampenByHalf(interval, emptyPolls) ==
    IF emptyPolls > DampenEmptyPolls
    THEN Min((interval * 15) \div 10, MaxIntervalMs)
    ELSE interval

\* Math.min(currentPollingInterval * 1.2, 20000); the products are whole numbers
Dampen(interval, emptyPolls) ==
    IF emptyPolls > DampenEmptyPolls
    THEN Min((interval * 12) \div 10, MaxIntervalMs)
    ELSE interval

\* Variant: the slow-down multiplies the interval the client already has.
adjustPollingFrequencyCompounding(p, voice, chat, timeSinceActivity, emptyPolls) ==
    IF PauseCondition(voice, chat, timeSinceActivity, emptyPolls)
    THEN pausePolling(p)
    ELSE [p EXCEPT !.interval =
              IF emptyPolls > DampenEmptyPolls
              THEN Dampen(p.interval, emptyPolls)
              ELSE TierInterval(voice, chat, timeSinceActivity)]

adjustPollingFrequency(p, voice, chat, timeSinceActivity, emptyPolls) ==
    IF PauseCondition(voice, chat, timeSinceActivity, emptyPolls)
    THEN pausePolling(p)
    ELSE [p EXCEPT !.interval =
              Dampen(TierInterval(voice, chat, timeSinceActivity), emptyPolls)]

RECURSIVE Reverse(_)
Reverse(s) == IF s = <<>> THEN <<>> ELSE Append(Reverse(Tail(s)), Head(s))

\* Variant: the new messages are taken as the inbox returns them, newest first.
NewMessagesNewestFirst(messages, lastCount) ==
    SubSeq(messages, 1, Len(messages) - lastCount)

\* data.messages.slice(0, messageCount - lastMessageCount).reverse()
NewMessages(messages, lastCount) ==
    Reverse(SubSeq(messages, 1, Len(messages) - lastCount))

\* displayNewMessage: defaults, then window.addChatMessageWithSource(content, role, source)
DefaultContent == <<"K", "e", "i", "n", "e", " ", "N", "a", "c", "h", "r", "i", "c", "h", "t">>
displayNewMessage(c, messageData, sid, fb, el) ==
    addChatMessageWithSource(c,
        IF messageData.content = <<>> THEN DefaultContent ELSE messageData.content,
        IF messageData.role = NULL THEN "assistant" ELSE messageData.role,
        "voice-function", sid, fb, el)

\* for (const message of newMessages) await displayNewMessage(message)
RECURSIVE DisplayAll(_, _, _, _, _)
DisplayAll(c, messages, sid, fb, el) ==
    IF messages = <<>> THEN c
    ELSE DisplayAll(displayNewMessage(c, Head(messages), sid, fb, el),
                    Tail(messages), sid, fb, el)

Ids(messages) == [i \in 1..Len(messages) |-> messages[i].id]

SetPoll(p) ==
    /\ messagePollingInterval' = p.timer
    /\ isPaused' = p.paused
    /\ currentPollingInterval' = p.interval

----------------------------------------------------------------------------
NoSend == [kind |-> "none", message |-> <<>>, posts |-> 0, sends |-> 0, appended |-> <<>>, settled |-> "none"]
Unset == -1     \* startX, startY before the first touchstart on the button (undefined)
NoTouch == [active |-> FALSE, onButton |-> FALSE, x |-> 0, y |-> 0, x0 |-> 0, y0 |-> 0,
            held |-> 0, far |-> FALSE]

\* Initial state: the scripts have just been loaded.  `stored` is what
\* localStorage holds from earlier visits, `el` whether the page has the
\* chatMessages element, `cfg` and `sid` the session ids the page provides,
\* `context` the conversation context of the page's VAPI_CONFIG, `container`
\* the chatContainer element.
InitAll(stored, el, cfg, sid, context, container, sdk) ==
    /\ messagePollingInterval = NoTimer
    /\ lastMessageCount = 0
    /\ currentSessionId = NULL
    /\ sinceActivity = 0
    /\ currentPollingInterval = StartInterval
    /\ consecutiveEmptyPolls = 0
    /\ isVoiceActive = FALSE
    /\ isChatActive = FALSE
    /\ isPaused = FALSE
    /\ chatActiveTimers = {}
    /\ deferredPending = FALSE
    /\ inFlight = <<>>
    /\ vapiConfigSessionId \in cfg
    /\ browserSessionId \in sid
    /\ inbox = <<>>
    /\ nextMessageId = 1
    /\ chatMessagesEl \in el
    /\ chatContainer \in container
    /\ otherChatHistory = [loaded |-> FALSE, entries |-> <<>>]
    /\ chatHistory = [loaded |-> FALSE, entries |-> <<>>]
    /\ localStorage \in stored
    /\ conversationContext \in context
    /\ lastLoad = [called |-> FALSE, entries |-> <<>>]
    /\ deletesInFlight = <<>>
    /\ clearedIds = {}
    /\ vapi \in sdk
    /\ isCallActive = FALSE
    /\ vapiWidgetActive = FALSE
    /\ chatRequests = <<>>
    /\ typingIndicator = FALSE
    /\ lastSend = NoSend
    /\ floatingButton = [isDragging |-> FALSE, dragStarted |-> FALSE, moved |-> FALSE,
                         longPressTimer |-> NoTimer, startX |-> Unset, startY |-> Unset]
    /\ touch = NoTouch
    /\ processedTranscripts = {}
    /\ cleanupTimers = {}
    /\ pollingStarted = FALSE
    /\ pageUnloaded = FALSE
    /\ displayed = <<>>
    /\ lastOutcome = "none"
    /\ lastWrites = <<>>
    /\ lastTranscript = [kind |-> "none", role |-> NULL, transcript |-> <<>>, added |-> 0]
    /\ delivered = [once |-> {}, twice |-> {}]
    /\ elapsed = 0
    /\ calls = [transcripts |-> 0, sends |-> 0]

EmptyStorage == [k \in StorageKeys |-> NoEntry]

\* the page's VAPI_CONFIG carries variableValues, the context not yet built
UnsetContext == [present |-> TRUE, value |-> <<>>]
\* a chat surface showing all of its content
FittingContainer == [exists |-> TRUE, scrollTop |-> 0, clientHeight |-> 400, scrollHeight |-> 400]

\* a page on which the voice SDK has been started
InitPage(stored, el, cfg, sid, context, container) ==
    InitAll(stored, el, cfg, sid, context, container, {TRUE})

InitWith(stored, el, cfg, sid) ==
    InitPage(stored, el, cfg, sid, {UnsetContext}, {FittingContainer})

----------------------------------------------------------------------------
\* Session discovery

\* Variant: the session id is taken from the page on every call.
initializeMessagePollingAnew(current, cfg, sid) ==
    IF cfg # NULL THEN cfg
    ELSE IF sid # NULL THEN sid
    ELSE current

\* the value initializeMessagePolling() leaves in currentSessionId
initializeMessagePolling(current, cfg, sid) ==
    IF current # NULL THEN current
    ELSE IF cfg # NULL THEN cfg
    ELSE sid

\* the value startMessagePollingWhenReady() leaves in currentSessionId
startMessagePollingWhenReady(current, cfg, sid) ==
    LET sessionId == IF cfg # NULL THEN cfg ELSE sid
    IN IF sessionId # NULL /\ current = NULL THEN sessionId ELSE current

\* initializeMessagePolling(): DOMContentLoaded, its retries, window.initMessagePolling
InitializeMessagePolling ==
    /\ ~pageUnloaded
    /\ currentSessionId' =
          initializeMessagePolling(currentSessionId, vapiConfigSessionId, browserSessionId)
    /\ UNCHANGED <<messagePollingInterval, lastMessageCount, sinceActivity,
                   currentPollingInterval, consecutiveEmptyPolls, isVoiceActive,
                   isChatActive, isPaused>>
    /\ UNCHANGED <<loopVars, pageVars, chatVars, voiceVars, histVars>>
    /\ lastOutcome' = "none"

\* The backup retries (1, 3, 5, 10 s after DOMContentLoaded) and the retry
\* 500 ms after the load event: if (!currentSessionId) initializeMessagePolling()
RetryInitialization ==
    /\ ~pageUnloaded
    /\ currentSessionId = NULL
    /\ currentSessionId' =
          initializeMessagePolling(currentSessionId, vapiConfigSessionId, browserSessionId)
    /\ UNCHANGED <<messagePollingInterval, lastMessageCount, sinceActivity,
                   currentPollingInterval, consecutiveEmptyPolls, isVoiceActive,
                   isChatActive, isPaused>>
    /\ UNCHANGED <<loopVars, pageVars, chatVars, voiceVars, histVars>>
    /\ lastOutcome' = "none"

\* window.startMessagePollingWhenReady()
StartMessagePollingWhenReady ==
    /\ ~pageUnloaded
    /\ currentSessionId' =
          startMessagePollingWhenReady(currentSessionId, vapiConfigSessionId,
                                       browserSessionId)
    /\ UNCHANGED <<messagePollingInterval, lastMessageCount, sinceActivity,
                   currentPollingInterval, consecutiveEmptyPolls, isVoiceActive,
                   isChatActive, isPaused>>
    /\ UNCHANGED <<loopVars, pageVars, chatVars, voiceVars, histVars>>
    /\ lastOutcome' = "none"

\* The page's scripts set window.VAPI_CONFIG.browserSessionId and
\* window.BROWSER_SESSION_ID.
PageProvidesSession(cfg, sid) ==
    /\ ~pageUnloaded
    /\ vapiConfigSessionId' = cfg
    /\ browserSessionId' = sid
    /\ UNCHANGED <<inbox, nextMessageId, chatMessagesEl, surfaceVars, deleteVars>>
    /\ UNCHANGED <<pollVars, loopVars, chatVars, voiceVars, histVars>>
    /\ lastOutcome' = "none"

\* startMessagePolling(sessionId): stops the timer and returns; the statements
\* after its `return` never run
StartMessagePolling ==
    /\ ~pageUnloaded
    /\ SetPoll(stopMessagePolling(PollState))
    /\ UNCHANGED <<lastMessageCount, currentSessionId, sinceActivity,
                   consecutiveEmptyPolls, isVoiceActive, isChatActive>>
    /\ UNCHANGED <<loopVars, pageVars, chatVars, voiceVars, histVars>>
    /\ lastOutcome' = "none"

\* window 'beforeunload' -> stopMessagePolling()
BeforeUnload ==
    /\ ~pageUnloaded
    /\ pageUnloaded' = TRUE
    /\ SetPoll(stopMessagePolling(PollState))
    /\ UNCHANGED <<lastMessageCount, currentSessionId, sinceActivity,
                   consecutiveEmptyPolls, isVoiceActive, isChatActive>>
    /\ UNCHANGED <<loopVars, pageVars, chatVars, voiceVars>>
    /\ UNCHANGED <<pollingStarted, displayed, delivered, elapsed, calls>>
    /\ lastOutcome' = "none"

----------------------------------------------------------------------------
\* Activity signals

\* what markUserActivity() does to the delivery client
MarkUserActivityEffect ==
    /\ sinceActivity' = 0
    /\ consecutiveEmptyPolls' = 0
    /\ isChatActive' = TRUE
    \* the resume runs before the interval is forced, so it arms with the old one
    /\ LET p == resumePolling(PollState)
       IN SetPoll([p EXCEPT !.interval = ActivityInterval])
    /\ chatActiveTimers' = chatActiveTimers \cup {ChatActiveTimeout}
    /\ UNCHANGED <<lastMessageCount, currentSessionId, isVoiceActive>>
    /\ UNCHANGED <<deferredPending, inFlight>>

\* markUserActivity() on a page with fewer than maxTimers of its timeouts outstanding
MarkUserActivityWith(maxTimers) ==
    /\ ~pageUnloaded
    /\ Cardinality(chatActiveTimers) < maxTimers
    /\ MarkUserActivityEffect
    /\ UNCHANGED <<pageVars, chatVars, voiceVars>>
    /\ UNCHANGED histVars
    /\ lastOutcome' = IF isPaused THEN "mark-resume" ELSE "mark"

MarkUserActivity == MarkUserActivityWith(MaxChatTimers)

\* Variant: setVoiceActive resets the activity time and the counter whatever
\* its argument.
SetVoiceActiveResetsAlways(active) ==
    /\ ~pageUnloaded
    /\ isVoiceActive' = active
    /\ sinceActivity' = 0
    /\ consecutiveEmptyPolls' = 0
    /\ SetPoll(resumePolling(PollState))
    /\ UNCHANGED <<lastMessageCount, currentSessionId, isChatActive>>
    /\ UNCHANGED <<loopVars, pageVars, chatVars, voiceVars, histVars>>
    /\ lastOutcome' = IF ~active THEN "voice-off"
                      ELSE IF isPaused THEN "voice-resume" ELSE "voice-on"

\* what setVoiceActive(active) does to the delivery client
SetVoiceActiveEffect(active) ==
    /\ isVoiceActive' = active
    /\ IF active
       THEN /\ sinceActivity' = 0
            /\ consecutiveEmptyPolls' = 0
            /\ SetPoll(resumePolling(PollState))
       ELSE UNCHANGED <<sinceActivity, consecutiveEmptyPolls, messagePollingInterval,
                        currentPollingInterval, isPaused>>
    /\ UNCHANGED <<lastMessageCount, currentSessionId, isChatActive>>
    /\ UNCHANGED loopVars

SetVoiceActive(active) ==
    /\ ~pageUnloaded
    /\ SetVoiceActiveEffect(active)
    /\ UNCHANGED <<pageVars, chatVars, voiceVars, histVars>>
    /\ lastOutcome' = IF ~active THEN "voice-off"
                      ELSE IF isPaused THEN "voice-resume" ELSE "voice-on"

\* The events of the voice SDK (setupVoiceEventListeners).  Each leaves the
\* page's other state alone.
CallEventFrame ==
    /\ UNCHANGED <<vapiConfigSessionId, browserSessionId, inbox, nextMessageId, chatMessagesEl,
                   chatContainer, otherChatHistory, vapi, vapiWidgetActive, sendVars, touchVars, deleteVars>>
    /\ UNCHANGED <<chatVars, voiceVars, histVars>>

\* vapi.on('call-start')
VapiCallStart ==
    /\ ~pageUnloaded
    /\ vapi
    /\ ~isCallActive
    /\ isCallActive' = TRUE
    /\ SetVoiceActiveEffect(TRUE)
    /\ CallEventFrame
    /\ lastOutcome' = "call-start"

\* vapi.on('call-end')
VapiCallEnd ==
    /\ ~pageUnloaded
    /\ vapi
    /\ isCallActive
    /\ isCallActive' = FALSE
    /\ SetVoiceActiveEffect(FALSE)
    /\ CallEventFrame
    /\ lastOutcome' = "call-end"

\* vapi.on('error'): the handler does not call setVoiceActive
VapiError ==
    /\ ~pageUnloaded
    /\ vapi
    /\ isCallActive' = FALSE
    /\ UNCHANGED <<pollVars, loopVars>>
    /\ CallEventFrame
    /\ lastOutcome' = "call-error"

\* the 300000 ms timeout of markUserActivity
ChatActiveTimeoutFires ==
    /\ 0 \in chatActiveTimers
    /\ chatActiveTimers' = chatActiveTimers \ {0}
    /\ isChatActive' = FALSE
    /\ UNCHANGED <<messagePollingInterval, lastMessageCount, currentSessionId,
                   sinceActivity, currentPollingInterval, consecutiveEmptyPolls,
                   isVoiceActive, isPaused>>
    /\ UNCHANGED <<deferredPending, inFlight>>
    /\ UNCHANGED <<pageVars, chatVars, voiceVars, histVars>>
    /\ lastOutcome' = "none"

----------------------------------------------------------------------------
\* The poll cycle

\* const response = await fetch(`/api/messages/${currentSessionId}`): the
\* request leaves with the inbox as the backend holds it
IssueFetch ==
    IF currentSessionId = NULL THEN inFlight ELSE Append(inFlight, inbox)

CanFetch(maxFlight, maxEmpty) ==
    currentSessionId # NULL =>
        /\ Len(inFlight) < maxFlight
        /\ consecutiveEmptyPolls <= maxEmpty

\* A call of checkForNewMessages() from outside the cycle, which starts it.
\* The function is a global of the page; the script's own call of it, in
\* startMessagePolling, lies after the `return` and never runs.
InitialCheck(maxFlight, maxEmpty) ==
    /\ ~pageUnloaded
    /\ ~pollingStarted
    /\ CanFetch(maxFlight, maxEmpty)
    /\ inFlight' = IssueFetch
    /\ pollingStarted' = (currentSessionId # NULL)
    /\ UNCHANGED <<pollVars, chatActiveTimers, deferredPending>>
    /\ UNCHANGED <<pageVars, chatVars, voiceVars>>
    /\ UNCHANGED <<pageUnloaded, displayed, delivered, elapsed, calls>>
    /\ lastOutcome' = "none"

\* The poll timer is due: its callback queues the deferred callback.
PollTimerFires ==
    /\ TimerPending
    /\ messagePollingInterval.left = 0
    /\ messagePollingInterval' = [messagePollingInterval EXCEPT !.state = "fired"]
    /\ deferredPending' = TRUE
    /\ UNCHANGED <<lastMessageCount, currentSessionId, sinceActivity,
                   currentPollingInterval, consecutiveEmptyPolls, isVoiceActive,
                   isChatActive, isPaused>>
    /\ UNCHANGED <<chatActiveTimers, inFlight>>
    /\ UNCHANGED <<pageVars, chatVars, voiceVars, histVars>>
    /\ lastOutcome' = "none"

\* The deferred callback: checkForNewMessages(); scheduleNextPoll();
DeferredCallbackRuns(maxFlight, maxEmpty) ==
    /\ deferredPending
    /\ CanFetch(maxFlight, maxEmpty)
    /\ deferredPending' = FALSE
    /\ inFlight' = IssueFetch
    /\ SetPoll(scheduleNextPoll(PollState))
    /\ UNCHANGED <<lastMessageCount, currentSessionId, sinceActivity,
                   consecutiveEmptyPolls, isVoiceActive, isChatActive>>
    /\ UNCHANGED chatActiveTimers
    /\ UNCHANGED <<pageVars, chatVars, voiceVars, histVars>>
    /\ lastOutcome' = IF currentSessionId # NULL THEN "check" ELSE "none"

RemoveAt(s, i) == SubSeq(s, 1, i - 1) \o SubSeq(s, i + 1, Len(s))

\* History: the (role, content) pair of each message, and the record of the
\* pairs that came in once and more than once.
Pairs(messages) ==
    [i \in 1..Len(messages) |->
        [role |-> IF messages[i].role = "user" THEN "user" ELSE "assistant",
         content |-> messages[i].content]]

RECURSIVE Deliver(_, _)
Deliver(d, pairs) ==
    IF pairs = <<>> THEN d
    ELSE Deliver(IF Head(pairs) \in d.once
                 THEN [d EXCEPT !.twice = @ \cup {Head(pairs)}]
                 ELSE [d EXCEPT !.once = @ \cup {Head(pairs)}],
                 Tail(pairs))

\* The rest of checkForNewMessages, from the answer of fetch i on.  outcome:
\* "ok" (success and messages), "nosuccess" (an answer without success), or
\* "error" (fetch or response.json() rejected).
FetchResponse(i, outcome, fb) ==
    /\ i \in 1..Len(inFlight)
    /\ LET messages == inFlight[i]
           messageCount == Len(messages)
           hasNew == outcome = "ok" /\ messageCount > lastMessageCount
           newMessages == IF hasNew THEN NewMessages(messages, lastMessageCount) ELSE <<>>
           empty == IF outcome = "ok"
                    THEN (IF hasNew THEN 0 ELSE consecutiveEmptyPolls + 1)
                    ELSE IF outcome = "error" THEN consecutiveEmptyPolls + ErrorPenalty
                    ELSE consecutiveEmptyPolls
           p0 == PollState
           p1 == IF outcome = "nosuccess" THEN p0
                 ELSE adjustPollingFrequency(p0, isVoiceActive, isChatActive,
                                             sinceActivity, empty)
           p2 == IF ~p1.paused THEN scheduleNextPoll(p1) ELSE p1
       IN /\ inFlight' = RemoveAt(inFlight, i)
          /\ lastMessageCount' = IF hasNew THEN messageCount ELSE lastMessageCount
          /\ consecutiveEmptyPolls' = empty
          /\ SetPoll(p2)
          /\ SetChat(DisplayAll(ChatState, newMessages, browserSessionId, fb, chatMessagesEl))
          /\ displayed' = displayed \o Ids(newMessages)
          /\ delivered' = Deliver(delivered, Pairs(newMessages))
          /\ lastOutcome' = outcome
    /\ UNCHANGED <<currentSessionId, sinceActivity, isVoiceActive, isChatActive>>
    /\ UNCHANGED <<chatActiveTimers, deferredPending>>
    /\ UNCHANGED <<pageVars, voiceVars>>
    /\ UNCHANGED <<pollingStarted, pageUnloaded, elapsed, calls>>

\* The backend stores a message for the session (newest first).
BackendStoresMessage(role, content, maxMessages) ==
    /\ nextMessageId <= maxMessages
    /\ inbox' = <<[id |-> nextMessageId, role |-> role, content |-> content]>> \o inbox
    /\ nextMessageId' = nextMessageId + 1
    /\ UNCHANGED <<vapiConfigSessionId, browserSessionId, chatMessagesEl, surfaceVars, deleteVars>>
    /\ UNCHANGED <<pollVars, loopVars, chatVars, voiceVars, histVars>>
    /\ lastOutcome' = "none"

\* The floating voice button on a touch device (draggable-voice-button.js)

Abs(n) == IF n < 0 THEN -n ELSE n

\* deltaX > 10 || deltaY > 10; with startX undefined both comparisons are false
MovedBeyondThreshold(x, y, startX, startY) ==
    startX # Unset /\ (Abs(x - startX) > MoveThreshold \/ Abs(y - startY) > MoveThreshold)

TouchFrame ==
    /\ UNCHANGED <<vapiConfigSessionId, browserSessionId, inbox, nextMessageId, chatMessagesEl,
                   chatContainer, otherChatHistory, callVars, sendVars, deleteVars>>
    /\ UNCHANGED <<pollVars, loopVars, chatVars, voiceVars, histVars>>

\* a finger goes down at (x, y).  touchstart is listened to on the button:
\* handleTouchStart runs only if the touch starts there.
TouchStart(onButton, x, y) ==
    /\ ~pageUnloaded
    /\ ~touch.active
    /\ touch' = [active |-> TRUE, onButton |-> onButton, x |-> x, y |-> y,
                 x0 |-> x, y0 |-> y, held |-> 0, far |-> FALSE]
    /\ floatingButton' =
          IF onButton
          THEN [floatingButton EXCEPT !.moved = FALSE, !.dragStarted = FALSE,
                                      !.startX = x, !.startY = y,
                                      !.longPressTimer = [state |-> "pending",
                                                          delay |-> LongPressDelay,
                                                          left |-> LongPressDelay]]
          ELSE floatingButton
    /\ TouchFrame
    /\ lastOutcome' = "none"

\* the finger moves to (x, y).  touchmove is listened to on the document:
\* handleTouchMove runs for every touch.
TouchMove(x, y) ==
    /\ ~pageUnloaded
    /\ touch.active
    /\ <<x, y>> # <<touch.x, touch.y>>
    /\ touch' = [touch EXCEPT !.x = x, !.y = y,
                              !.far = @ \/ Abs(x - touch.x0) > MoveThreshold
                                        \/ Abs(y - touch.y0) > MoveThreshold]
    /\ floatingButton' =
          IF ~floatingButton.dragStarted
                /\ MovedBeyondThreshold(x, y, floatingButton.startX, floatingButton.startY)
          THEN [floatingButton EXCEPT !.moved = TRUE, !.longPressTimer = NoTimer]
          ELSE floatingButton
    /\ TouchFrame
    /\ lastOutcome' = "none"

\* the callback of the long-press timer
LongPressTimerFires ==
    /\ ~pageUnloaded
    /\ floatingButton.longPressTimer.state = "pending"
    /\ floatingButton.longPressTimer.left = 0
    /\ floatingButton' = [floatingButton EXCEPT !.dragStarted = TRUE, !.isDragging = TRUE,
                                                !.longPressTimer = NoTimer]
    /\ UNCHANGED touch
    /\ TouchFrame
    /\ lastOutcome' = "drag-mode"

\* the finger is lifted.  touchend is listened to on the document:
\* handleTouchEnd runs for every touch, and clicks #vapiVoiceButton when
\* neither dragStarted nor moved is set.
TouchEnd ==
    /\ ~pageUnloaded
    /\ touch.active
    /\ touch' = NoTouch
    /\ floatingButton' =
          [floatingButton EXCEPT
              !.longPressTimer = NoTimer,
              !.isDragging = IF floatingButton.dragStarted THEN FALSE ELSE @,
              !.dragStarted = FALSE,
              !.moved = FALSE]
    /\ TouchFrame
    /\ lastOutcome' = IF ~floatingButton.dragStarted /\ ~floatingButton.moved
                      THEN "tap-click"
                      ELSE IF floatingButton.dragStarted /\ floatingButton.isDragging
                           THEN "drag-end" ELSE "none"

\* Chat messages sent by the user (sendChatMessage)

\* Variant: the route looks at window.isCallActive only.
UsesVoiceCallFlagOnly(sdk, callActive, widgetActive) == sdk /\ callActive

\* window.vapi && (window.isCallActive || isVoiceActive), isVoiceActive being
\* what the classes of the .vapi-widget element say
UsesVoiceCall(sdk, callActive, widgetActive) == sdk /\ (callActive \/ widgetActive)

\* the text shown when the backend answered without a message
NoAnswerText == <<"?">>

\* the SDK's widget gains or loses its vapi-call-active / vapi-speaking /
\* vapi-listening classes
VapiWidgetClassChanges(active) ==
    /\ ~pageUnloaded
    /\ vapi
    /\ vapiWidgetActive # active
    /\ vapiWidgetActive' = active
    /\ UNCHANGED <<vapiConfigSessionId, browserSessionId, inbox, nextMessageId, chatMessagesEl,
                   chatContainer, otherChatHistory, vapi, isCallActive, sendVars, touchVars,
                   deleteVars>>
    /\ UNCHANGED <<pollVars, loopVars, chatVars, voiceVars, histVars>>
    /\ lastOutcome' = "none"

\* sendChatMessage(message) up to its return or its await; throws says whether
\* vapi.send throws
SendChatMessage(message, throws, fb, maxSends, maxTimers) ==
    /\ ~pageUnloaded
    /\ calls.sends < maxSends
    /\ Cardinality(chatActiveTimers) < maxTimers
    /\ calls' = [calls EXCEPT !.sends = @ + 1]
    /\ IF Trim(message) = <<>>
       THEN /\ UNCHANGED <<pollVars, loopVars, chatVars, chatRequests, typingIndicator>>
            /\ lastSend' = [NoSend EXCEPT !.kind = "blank", !.message = message,
                                           !.settled = "returned"]
       ELSE /\ MarkUserActivityEffect
            /\ SetChat(addChatMessageWithSource(ChatState, message, "user", "chat",
                                                browserSessionId, fb, chatMessagesEl))
            /\ IF UsesVoiceCall(vapi, isCallActive, vapiWidgetActive)
               THEN \* vapi.send, caught when it throws; hideTypingIndicator(); return
                    /\ typingIndicator' = FALSE
                    /\ UNCHANGED chatRequests
                    /\ lastSend' = [kind |-> "voice", message |-> message, posts |-> 0, sends |-> 1,
                                    appended |-> <<NewMessage(message, "user", "chat")>>,
                                    settled |-> IF throws THEN "caught" ELSE "returned"]
               ELSE \* showTypingIndicator(); the abort timer; fetch POST /api/chat
                    /\ typingIndicator' = TRUE
                    /\ chatRequests' = Append(chatRequests, ChatRequestTimeout)
                    /\ lastSend' = [kind |-> "post", message |-> message, posts |-> 1, sends |-> 0,
                                    appended |-> <<NewMessage(message, "user", "chat")>>,
                                    settled |-> "pending"]
    /\ UNCHANGED <<vapiConfigSessionId, browserSessionId, inbox, nextMessageId, chatMessagesEl,
                   chatContainer, otherChatHistory, callVars, touchVars, deleteVars>>
    /\ UNCHANGED voiceVars
    /\ UNCHANGED <<pollingStarted, pageUnloaded, displayed, delivered, elapsed>>
    /\ lastOutcome' = "none"

ChatOutcomes == {"message", "no-message", "http-error", "rejected", "aborted"}
ChatFailures == {"http-error", "rejected", "aborted"}

\* the continuation of sendChatMessage after its fetch.  The catch block
\* starts with clearTimeout(timeoutId), and timeoutId is a const of the try
\* block: the reference throws, so the promise of sendChatMessage rejects
\* before hideTypingIndicator() and addChatMessage() of the catch block.  The
\* abort timer of a fetch that is settled does nothing when it fires.
\* answer is data.message of a 2xx response that has one.
ChatResponse(i, outcome, answer, fb) ==
    /\ ~pageUnloaded
    /\ i \in 1..Len(chatRequests)
    /\ outcome \in ChatOutcomes
    /\ (outcome = "aborted") => chatRequests[i] = 0
    /\ (outcome # "aborted") => chatRequests[i] > 0
    /\ chatRequests' = RemoveAt(chatRequests, i)
    /\ IF outcome \in {"message", "no-message"}
       THEN LET text == IF outcome = "message" THEN answer ELSE NoAnswerText
            IN /\ typingIndicator' = FALSE
               /\ SetChat(addChatMessageWithSource(ChatState, text, "assistant", "chat",
                                                   browserSessionId, fb, chatMessagesEl))
               /\ lastSend' = [kind |-> outcome, message |-> <<>>, posts |-> 0, sends |-> 0,
                               appended |-> <<NewMessage(text, "assistant", "chat")>>,
                               settled |-> "resolved"]
       ELSE /\ typingIndicator' = IF outcome = "http-error" THEN FALSE ELSE typingIndicator
            /\ UNCHANGED chatVars
            /\ lastSend' = [kind |-> outcome, message |-> <<>>, posts |-> 0, sends |-> 0,
                            appended |-> <<>>, settled |-> "rejected"]
    /\ UNCHANGED <<vapiConfigSessionId, browserSessionId, inbox, nextMessageId, chatMessagesEl,
                   chatContainer, otherChatHistory, callVars, touchVars, deleteVars>>
    /\ UNCHANGED <<pollVars, loopVars, voiceVars, histVars>>
    /\ lastOutcome' = "none"

\* clearSessionMessages() up to its await: the DELETE request leaves and the
\* backend empties the inbox, or fails to
ClearSessionMessages(success, maxDeletes) ==
    /\ ~pageUnloaded
    /\ currentSessionId # NULL
    /\ Len(deletesInFlight) < maxDeletes
    /\ inbox' = IF success THEN <<>> ELSE inbox
    /\ deletesInFlight' =
          Append(deletesInFlight,
                 [success |-> success, ids |-> {inbox[i].id : i \in 1..Len(inbox)}])
    /\ UNCHANGED <<vapiConfigSessionId, browserSessionId, nextMessageId, chatMessagesEl,
                   surfaceVars, clearedIds>>
    /\ UNCHANGED <<pollVars, loopVars, chatVars, voiceVars, histVars>>
    /\ lastOutcome' = "none"

\* the continuation of clearSessionMessages: on success lastMessageCount = 0
ClearResponse(i) ==
    /\ i \in 1..Len(deletesInFlight)
    /\ deletesInFlight' = RemoveAt(deletesInFlight, i)
    /\ lastMessageCount' = IF deletesInFlight[i].success THEN 0 ELSE lastMessageCount
    /\ clearedIds' =
          IF deletesInFlight[i].success THEN clearedIds \cup deletesInFlight[i].ids
          ELSE clearedIds
    /\ UNCHANGED <<messagePollingInterval, currentSessionId, sinceActivity,
                   currentPollingInterval, consecutiveEmptyPolls, isVoiceActive, isChatActive,
                   isPaused>>
    /\ UNCHANGED <<vapiConfigSessionId, browserSessionId, inbox, nextMessageId, chatMessagesEl,
                   surfaceVars>>
    /\ UNCHANGED <<loopVars, chatVars, voiceVars, histVars>>
    /\ lastOutcome' = "cleared"

----------------------------------------------------------------------------
\* Voice transcripts (voice-functions.js)

\* `${message.role}-${message.transcript.trim()}`
TranscriptContent(role, transcript) == <<role, "-">> \o Trim(transcript)

\* Array.from(window.processedTranscripts).some(id => { const [role, content] =
\* id.split('-', 2); return role === message.role && content === transcript.trim() })
RecentlyProcessed(processed, role, transcript) ==
    \E id \in processed :
        LET fields == SplitLimit(id, 2)
        IN /\ Len(fields) = 2
           /\ fields[1] = <<role>>
           /\ fields[2] = Trim(transcript)

\* the chat part of handleVoiceTranscript: push and save, then the chat display
VoiceToChat(c, role, transcript, sid, fb, el) ==
    LET sender == IF role = "user" THEN "user" ELSE "assistant"
        c1 == IF ~c.loaded THEN loadChatHistoryFromStorage(c, sid, fb) ELSE c
        c2 == [c1 EXCEPT !.entries = Append(@, NewMessage(transcript, sender, "voice"))]
        c3 == saveChatHistoryToStorage(c2, sid)
    IN addChatMessageWithSource(c3, transcript, sender, "voice", sid, fb, el)

\* vapi.on('message') hands a final transcript to handleVoiceTranscript(message)
HandleVoiceTranscript(role, transcript, fb) ==
    /\ ~pageUnloaded
    /\ calls.transcripts < MaxTranscripts
    /\ calls' = [calls EXCEPT !.transcripts = @ + 1]
    /\ LET invalid == transcript = <<>> \/ role = NULL
           duplicate == ~invalid /\ RecentlyProcessed(processedTranscripts, role, transcript)
           accepted == ~invalid /\ ~duplicate
           toChat == accepted /\ Trim(transcript) # <<>>
           id == TranscriptContent(role, transcript)
           c == IF toChat
                THEN VoiceToChat(ChatState, role, transcript, browserSessionId, fb,
                                 chatMessagesEl)
                ELSE ChatState
       IN /\ processedTranscripts' =
                IF accepted THEN processedTranscripts \cup {id} ELSE processedTranscripts
          /\ cleanupTimers' =
                IF accepted
                THEN cleanupTimers \cup {[content |-> id, left |-> DedupWindowMs]}
                ELSE cleanupTimers
          /\ SetChat(c)
          /\ delivered' =
                IF transcript = <<>> \/ role = NULL \/ Trim(transcript) = <<>>
                THEN delivered
                ELSE Deliver(delivered,
                             <<[role |-> IF role = "user" THEN "user" ELSE "assistant",
                                content |-> transcript]>>)
          /\ lastTranscript' =
                [kind |-> IF invalid THEN "invalid"
                          ELSE IF duplicate THEN "duplicate"
                          ELSE IF toChat THEN "accepted" ELSE "blank",
                 role |-> role, transcript |-> transcript,
                 added |-> Len(c.entries) - Len(chatHistory.entries)]
    /\ UNCHANGED <<pollVars, loopVars, pageVars>>
    /\ UNCHANGED <<pollingStarted, pageUnloaded, displayed, elapsed>>
    /\ lastOutcome' = "none"

\* the 10000 ms timeout that forgets a processed transcript
CleanupTimerFires(t) ==
    /\ t \in cleanupTimers
    /\ t.left = 0
    /\ cleanupTimers' = cleanupTimers \ {t}
    /\ processedTranscripts' = processedTranscripts \ {t.content}
    /\ UNCHANGED lastTranscript
    /\ UNCHANGED <<pollVars, loopVars, pageVars, chatVars, histVars>>
    /\ lastOutcome' = "none"

\* a call of window.addChatMessageWithSource(message, sender, source) by the page
AddChatMessageWithSource(message, sender, source, fb) ==
    /\ ~pageUnloaded
    /\ calls.sends < MaxSends
    /\ calls' = [calls EXCEPT !.sends = @ + 1]
    /\ SetChat(addChatMessageWithSource(ChatState, message, sender, source,
                                        browserSessionId, fb, chatMessagesEl))
    /\ UNCHANGED <<pollVars, loopVars, pageVars, voiceVars>>
    /\ UNCHANGED <<pollingStarted, pageUnloaded, displayed, delivered, elapsed>>
    /\ lastOutcome' = "none"

\* startVoiceCall() with window.vapi initialised: builds the context of the
\* call from the transcript and stores it when the page has variableValues
StartVoiceCall ==
    /\ ~pageUnloaded
    /\ conversationContext' =
          IF conversationContext.present
          THEN [conversationContext EXCEPT !.value = ConversationContextOf(chatHistory.entries)]
          ELSE conversationContext
    /\ UNCHANGED <<chatHistory, localStorage, lastWrites, lastLoad>>
    /\ UNCHANGED <<pollVars, loopVars, pageVars, voiceVars, histVars>>
    /\ lastOutcome' = "voice-call"

\* window.initializeChatHistory(), called when the DOM is ready
InitializeChatHistory(fb) ==
    /\ ~pageUnloaded
    /\ SetChat(initializeChatHistory(ChatState, browserSessionId, fb))
    /\ UNCHANGED <<pollVars, loopVars, pageVars, voiceVars, histVars>>
    /\ lastOutcome' = "init-history"

\* window.clearChatHistory()
ClearChatHistory ==
    /\ ~pageUnloaded
    /\ SetChat(clearChatHistory(ChatState, browserSessionId))
    /\ UNCHANGED <<pollVars, loopVars, pageVars, voiceVars, histVars>>
    /\ lastOutcome' = "clear"

\* a call of window.loadChatHistoryFromStorage() whose result the caller keeps
LoadChatHistoryFromStorage(fb) ==
    /\ ~pageUnloaded
    /\ LET c == loadChatHistoryFromStorage(ChatState, browserSessionId, fb)
       IN /\ localStorage' = c.storage
          /\ lastWrites' = IF c.writes = <<>> THEN lastWrites ELSE c.writes
          /\ lastLoad' = [called |-> TRUE, entries |-> c.entries]
    /\ UNCHANGED <<chatHistory, conversationContext>>
    /\ UNCHANGED <<pollVars, loopVars, pageVars, voiceVars, histVars>>
    /\ lastOutcome' = "load"

\* A second tab of the same origin, whose page has the session id `other`,
\* runs addChatMessageWithSource: its own window.chatHistory, the same localStorage.
OtherTabAddsChatMessage(other, message, fb, maxEntries) ==
    /\ Len(otherChatHistory.entries) < maxEntries
    /\ LET c == addChatMessageWithSource(
                    [loaded |-> otherChatHistory.loaded, entries |-> otherChatHistory.entries,
                     storage |-> localStorage, writes |-> <<>>,
                     context |-> [present |-> FALSE, value |-> <<>>]],
                    message, "user", "chat", other, fb, TRUE)
       IN /\ otherChatHistory' = [loaded |-> c.loaded, entries |-> c.entries]
          /\ localStorage' = c.storage
    /\ UNCHANGED <<chatHistory, lastWrites, conversationContext, lastLoad, chatContainer>>
    /\ UNCHANGED <<callVars, sendVars, touchVars, deleteVars>>
    /\ UNCHANGED <<vapiConfigSessionId, browserSessionId, inbox, nextMessageId, chatMessagesEl>>
    /\ UNCHANGED <<pollVars, loopVars, voiceVars, histVars>>
    /\ lastOutcome' = "other-tab"

----------------------------------------------------------------------------
\* Presenter: the scroll position of the chat surface (chat functions)

\* containerHeight * 4, without the bounds
ScrollToleranceUnbounded(containerHeight) == containerHeight * 4

\* Math.min(Math.max(containerHeight * 4, 500), 1200)
ScrollTolerance(containerHeight) == Min(Max(containerHeight * 4, 500), 1200)

\* chatContainer.scrollTo({top: top, behavior: 'smooth'}), where the scrolling
\* ends: the browser keeps scrollTop within 0 .. scrollHeight - clientHeight
ScrollTo(el, top) ==
    [el EXCEPT !.scrollTop = Max(0, Min(top, el.scrollHeight - el.clientHeight))]

scrollToBottomIfNeeded(el, forceScroll) ==
    IF ~el.exists THEN el
    ELSE IF forceScroll THEN ScrollTo(el, el.scrollHeight)
    ELSE IF el.scrollTop + el.clientHeight >= el.scrollHeight - ScrollTolerance(el.clientHeight)
    THEN ScrollTo(el, el.scrollHeight)
    ELSE el

\* a call of scrollToBottomIfNeeded: by the timeout addChatMessageWithSource
\* sets (false), by showTypingIndicator (default false), or with true
ScrollToBottomIfNeeded(forceScroll) ==
    /\ ~pageUnloaded
    /\ chatContainer' = scrollToBottomIfNeeded(chatContainer, forceScroll)
    /\ UNCHANGED <<vapiConfigSessionId, browserSessionId, inbox, nextMessageId, chatMessagesEl,
                   otherChatHistory, callVars, sendVars, touchVars, deleteVars>>
    /\ UNCHANGED <<pollVars, loopVars, chatVars, voiceVars, histVars>>
    /\ lastOutcome' = IF forceScroll THEN "scroll-forced" ELSE "scroll"

\* the viewer scrolls the chat surface to `top`
UserScrolls(top) ==
    /\ chatContainer.exists
    /\ top # chatContainer.scrollTop
    /\ top <= chatContainer.scrollHeight - chatContainer.clientHeight
    /\ chatContainer' = [chatContainer EXCEPT !.scrollTop = top]
    /\ UNCHANGED <<vapiConfigSessionId, browserSessionId, inbox, nextMessageId, chatMessagesEl,
                   otherChatHistory, callVars, sendVars, touchVars, deleteVars>>
    /\ UNCHANGED <<pollVars, loopVars, chatVars, voiceVars, histVars>>
    /\ lastOutcome' = "none"

\* chatMessages.appendChild(messageDiv): the content grows by the height of the message
MessageRendered(height, maxHeight) ==
    /\ chatContainer.exists
    /\ chatContainer.scrollHeight + height <= maxHeight
    /\ chatContainer' = [chatContainer EXCEPT !.scrollHeight = @ + height]
    /\ UNCHANGED <<vapiConfigSessionId, browserSessionId, inbox, nextMessageId, chatMessagesEl,
                   otherChatHistory, callVars, sendVars, touchVars, deleteVars>>
    /\ UNCHANGED <<pollVars, loopVars, chatVars, voiceVars, histVars>>
    /\ lastOutcome' = "none"

----------------------------------------------------------------------------
\* Time

Later(instants) == {t \in instants : t > sinceActivity}

\* ms until the next instant at which the model looks at the page
Step(instants, beyond) ==
    IF Later(instants) = {} THEN beyond
    ELSE (CHOOSE t \in Later(instants) : \A u \in Later(instants) : t <= u) - sinceActivity

Due ==
    \/ deferredPending
    \/ TimerPending /\ messagePollingInterval.left = 0
    \/ 0 \in chatActiveTimers
    \/ \E t \in cleanupTimers : t.left = 0
    \/ \E i \in 1..Len(chatRequests) : chatRequests[i] = 0
    \/ floatingButton.longPressTimer.state = "pending" /\ floatingButton.longPressTimer.left = 0

\* d ms pass with no task running.  A callback that is due runs first; a
\* timer whose delay has passed within d is due after it (setTimeout promises
\* no more than that the callback is not run earlier).
\* sinceActivity stays at the last instant once it is past all of them: the
\* code compares it with 120000 and 600000 only.
Tick(instants, beyond) ==
    /\ ~Due
    /\ LET d == Step(instants, beyond)
       IN /\ sinceActivity' = IF Later(instants) = {} THEN sinceActivity ELSE sinceActivity + d
          /\ messagePollingInterval' =
                IF TimerPending
                THEN [messagePollingInterval EXCEPT !.left = Max(0, @ - d)]
                ELSE messagePollingInterval
          /\ chatActiveTimers' = {Max(0, t - d) : t \in chatActiveTimers}
          /\ cleanupTimers' = {[t EXCEPT !.left = Max(0, @ - d)] : t \in cleanupTimers}
          /\ elapsed' = Min(elapsed + d, DedupWindowMs)
          /\ chatRequests' = [i \in 1..Len(chatRequests) |-> Max(0, chatRequests[i] - d)]
          /\ floatingButton' =
                IF floatingButton.longPressTimer.state = "pending"
                THEN [floatingButton EXCEPT !.longPressTimer.left = Max(0, @ - d)]
                ELSE floatingButton
          /\ touch' = IF touch.active
                      THEN [touch EXCEPT !.held = Min(@ + d, LongPressDelay)]
                      ELSE touch
    /\ UNCHANGED <<lastMessageCount, currentSessionId, currentPollingInterval,
                   consecutiveEmptyPolls, isVoiceActive, isChatActive, isPaused>>
    /\ UNCHANGED <<deferredPending, inFlight>>
    /\ UNCHANGED <<vapiConfigSessionId, browserSessionId, inbox, nextMessageId, chatMessagesEl,
                   chatContainer, otherChatHistory, callVars, typingIndicator, lastSend,
                   deleteVars>>
    /\ UNCHANGED chatVars
    /\ UNCHANGED <<processedTranscripts, lastTranscript>>
    /\ UNCHANGED <<pollingStarted, pageUnloaded, displayed, delivered, calls>>
    /\ lastOutcome' = "none"

----------------------------------------------------------------------------
\* The delivery client: the poll cycle, the activity signals and the backend.

\* the instants, in ms since the last activity, at which the page is observed
PollInstants == {0, 600000, 601000}
Outcomes == {"ok", "nosuccess", "error"}
StrA == <<"a">>

Init == InitWith({EmptyStorage}, {TRUE}, {NULL}, {"s1"})

Next ==
    \/ InitializeMessagePolling
    \/ StartMessagePolling
    \/ BeforeUnload
    \/ MarkUserActivity
    \/ \E active \in BOOLEAN : SetVoiceActive(active)
    \/ ChatActiveTimeoutFires
    \/ InitialCheck(MaxInFlight, MaxEmptyPolls)
    \/ PollTimerFires
    \/ DeferredCallbackRuns(MaxInFlight, MaxEmptyPolls)
    \/ \E i \in 1..MaxInFlight, outcome \in Outcomes, fb \in FallbackChoices(localStorage) :
          FetchResponse(i, outcome, fb)
    \/ BackendStoresMessage("assistant", StrA, MaxMessages)
    \/ Tick(PollInstants, MaxIntervalMs)

Spec == Init /\ [][Next]_vars

----------------------------------------------------------------------------
\* The backoff over a long idle run: one fetch at a time, observed every 40 s
\* of the first 10 minutes after an activity, and 1 s later.
BackoffInstants == {40000 * k : k \in 0..15} \cup {601000}

NextBackoff ==
    \/ InitializeMessagePolling
    \/ MarkUserActivity
    \/ \E active \in BOOLEAN : SetVoiceActive(active)
    \/ ChatActiveTimeoutFires
    \/ InitialCheck(1, LongEmptyPolls)
    \/ PollTimerFires
    \/ DeferredCallbackRuns(1, LongEmptyPolls)
    \/ \E outcome \in Outcomes, fb \in FallbackChoices(localStorage) :
          FetchResponse(1, outcome, fb)
    \/ BackendStoresMessage("assistant", StrA, MaxMessages)
    \/ Tick(BackoffInstants, MaxIntervalMs)

SpecBackoff == Init /\ [][NextBackoff]_vars

----------------------------------------------------------------------------
\* An idle session: polls that find nothing, and no activity signal.  The page
\* is observed every 20 s of the first 10 minutes, and 1 s later.
IdleInstants == {20000 * k : k \in 0..30} \cup {601000}

NextIdle ==
    \/ InitializeMessagePolling
    \/ InitialCheck(1, LongEmptyPolls)
    \/ PollTimerFires
    \/ DeferredCallbackRuns(1, LongEmptyPolls)
    \/ \E fb \in FallbackChoices(localStorage) : FetchResponse(1, "ok", fb)
    \/ BackendStoresMessage("assistant", StrA, MaxMessages)
    \/ Tick(IdleInstants, MaxIntervalMs)

SpecIdle == Init /\ [][NextIdle]_vars

----------------------------------------------------------------------------
\* What a poll displays: the backend fills the inbox while fetches are out.
NextInbox ==
    \/ InitializeMessagePolling
    \/ InitialCheck(MaxInFlight, MaxEmptyPolls)
    \/ PollTimerFires
    \/ DeferredCallbackRuns(MaxInFlight, MaxEmptyPolls)
    \/ \E i \in 1..MaxInFlight, outcome \in Outcomes, fb \in FallbackChoices(localStorage) :
          FetchResponse(i, outcome, fb)
    \/ BackendStoresMessage("assistant", StrA, InboxMessages)
    \/ Tick(PollInstants, MaxIntervalMs)

SpecInbox == Init /\ [][NextInbox]_vars

----------------------------------------------------------------------------
\* The transcript: voice transcripts, polled messages and the page's own
\* appends, on a page that may hold a transcript of an earlier visit.
StoredEntries == 29     \* entries of the transcript an earlier visit left
ChatMessages == 1       \* SpecChat: messages the backend puts in the inbox
ChatEmptyPolls == 1     \* SpecChat: no fetch is issued once consecutiveEmptyPolls has passed this
ChatInstants == {0, 5000, 10000}
StrAB == <<"a", "-", "b">>

\* the final transcripts the voice call reports
VoiceMessages == {[role |-> "assistant", transcript |-> StrA],
                  [role |-> "user", transcript |-> StrA],
                  [role |-> "user", transcript |-> StrAB]}

Filler(n) == [i \in 1..n |-> [role |-> "assistant", content |-> <<"f">>, source |-> "chat"]]

StoredHistory(n) ==
    [EmptyStorage EXCEPT !["s1"] = [present |-> TRUE, value |-> Filler(n)]]

InitChat == InitWith({EmptyStorage, StoredHistory(StoredEntries)}, BOOLEAN, {NULL}, {"s1"})

NextChat ==
    \/ InitializeMessagePolling
    \/ InitialCheck(1, ChatEmptyPolls)
    \/ PollTimerFires
    \/ DeferredCallbackRuns(1, ChatEmptyPolls)
    \/ \E fb \in FallbackChoices(localStorage) : FetchResponse(1, "ok", fb)
    \/ BackendStoresMessage("assistant", StrA, ChatMessages)
    \/ \E message \in VoiceMessages, fb \in FallbackChoices(localStorage) :
          HandleVoiceTranscript(message.role, message.transcript, fb)
    \/ \E t \in cleanupTimers : CleanupTimerFires(t)
    \/ \E fb \in FallbackChoices(localStorage) :
          AddChatMessageWithSource(StrA, "user", "chat", fb)
    \/ Tick(ChatInstants, 5000)

SpecChat == InitChat /\ [][NextChat]_vars

----------------------------------------------------------------------------
\* Session discovery: the page's scripts provide the session ids, and change
\* them, while the client initializes and polls.
SessionIds == {"s1", "s2"}

InitSession == InitWith({EmptyStorage}, {TRUE}, {NULL}, {NULL})

NextSession ==
    \/ \E cfg \in SessionIds \cup {NULL}, sid \in SessionIds \cup {NULL} :
          PageProvidesSession(cfg, sid)
    \/ InitializeMessagePolling
    \/ RetryInitialization
    \/ StartMessagePollingWhenReady
    \/ StartMessagePolling
    \/ InitialCheck(1, MaxEmptyPolls)
    \/ PollTimerFires
    \/ DeferredCallbackRuns(1, MaxEmptyPolls)
    \/ \E outcome \in Outcomes, fb \in FallbackChoices(localStorage) :
          FetchResponse(1, outcome, fb)
    \/ Tick(PollInstants, MaxIntervalMs)

SpecSession == InitSession /\ [][NextSession]_vars

----------------------------------------------------------------------------
\* The poll cycle under the browser's scheduling: time passes, a timer that is
\* due fires, a queued callback runs and a fetch is answered or fails.
NextResume ==
    \/ InitializeMessagePolling
    \/ MarkUserActivity
    \/ \E active \in BOOLEAN : SetVoiceActive(active)
    \/ ChatActiveTimeoutFires
    \/ InitialCheck(1, MaxEmptyPolls)
    \/ PollTimerFires
    \/ DeferredCallbackRuns(1, MaxEmptyPolls)
    \/ \E outcome \in Outcomes, fb \in FallbackChoices(localStorage) :
          FetchResponse(1, outcome, fb)
    \/ Tick(PollInstants, MaxIntervalMs)

SpecResume ==
    /\ Init
    /\ [][NextResume]_vars
    /\ WF_vars(Tick(PollInstants, MaxIntervalMs))
    /\ WF_vars(PollTimerFires)
    /\ WF_vars(ChatActiveTimeoutFires)
    /\ WF_vars(DeferredCallbackRuns(1, MaxEmptyPolls))
    /\ WF_vars(\E outcome \in Outcomes, fb \in FallbackChoices(localStorage) :
                  FetchResponse(1, outcome, fb))

----------------------------------------------------------------------------
\* The transcript store of a page with session id "s1", next to a tab with
\* session id "s2": appends, the voice call's context, clearing and loading.
MaxOtherEntries == 2    \* entries the second tab appends
OtherSessionId == "s2"
StoreInstants == {0, 10000}

\* a transcript of one entry that an earlier visit with the other session id left
StoredByOther ==
    [EmptyStorage EXCEPT ![OtherSessionId] =
        [present |-> TRUE,
         value |-> <<[role |-> "user", content |-> StrAB, source |-> "chat"]>>]]

InitStore ==
    InitPage({EmptyStorage, StoredHistory(StoredEntries), StoredByOther}, {TRUE}, {NULL},
             {"s1"}, {UnsetContext}, {FittingContainer})

NextStore ==
    \/ \E sender \in {"user", "assistant"}, fb \in FallbackChoices(localStorage) :
          AddChatMessageWithSource(StrA, sender, "chat", fb)
    \/ StartVoiceCall
    \/ \E fb \in FallbackChoices(localStorage) : InitializeChatHistory(fb)
    \/ ClearChatHistory
    \/ \E fb \in FallbackChoices(localStorage) : LoadChatHistoryFromStorage(fb)
    \/ \E fb \in FallbackChoices(localStorage) :
          OtherTabAddsChatMessage(OtherSessionId, StrA, fb, MaxOtherEntries)

SpecStore == InitStore /\ [][NextStore]_vars

\* The conversation context of a page that appends to its transcript, hears
\* voice transcripts and starts voice calls; the page may lack the chatMessages
\* element or the variableValues of VAPI_CONFIG.
InitContext ==
    InitPage({EmptyStorage, StoredHistory(StoredEntries)}, BOOLEAN, {NULL}, {"s1"},
             {UnsetContext, [present |-> FALSE, value |-> <<>>]}, {FittingContainer})

NextContext ==
    \/ \E sender \in {"user", "assistant"}, fb \in FallbackChoices(localStorage) :
          AddChatMessageWithSource(StrA, sender, "chat", fb)
    \/ \E role \in {"user", "assistant"}, fb \in FallbackChoices(localStorage) :
          HandleVoiceTranscript(role, StrA, fb)
    \/ \E t \in cleanupTimers : CleanupTimerFires(t)
    \/ StartVoiceCall
    \/ \E fb \in FallbackChoices(localStorage) : InitializeChatHistory(fb)
    \/ Tick(StoreInstants, 10000)

SpecContext == InitContext /\ [][NextContext]_vars

----------------------------------------------------------------------------
\* The chat surface: messages are rendered, the viewer scrolls, and
\* scrollToBottomIfNeeded runs, on viewports from 100 to 400 px.
MaxScrollHeight == 2000     \* the content's height stays within this
MessageHeight == 100
ViewportHeights == {100, 125, 200, 300, 400}
ScrollPositions == {50 * k : k \in 0..40}

Containers ==
    {[exists |-> FALSE, scrollTop |-> 0, clientHeight |-> 0, scrollHeight |-> 0]}
    \cup {[exists |-> TRUE, scrollTop |-> 0, clientHeight |-> h, scrollHeight |-> h] :
              h \in ViewportHeights}

InitScroll == InitPage({EmptyStorage}, {TRUE}, {NULL}, {"s1"}, {UnsetContext}, Containers)

NextScroll ==
    \/ \E forceScroll \in BOOLEAN : ScrollToBottomIfNeeded(forceScroll)
    \/ \E top \in ScrollPositions : UserScrolls(top)
    \/ MessageRendered(MessageHeight, MaxScrollHeight)

SpecScroll == InitScroll /\ [][NextScroll]_vars

----------------------------------------------------------------------------
\* Chat activity: markUserActivity() is called again while the timeouts of
\* earlier calls are outstanding, next to a polling client.
ActivityTimers == 2         \* outstanding chat-activity timeouts
ActivityEmptyPolls == 1     \* no fetch is issued once consecutiveEmptyPolls has passed this
ActivityInstants == {0, 100000, 200000, 300000}

NextActivity ==
    \/ InitializeMessagePolling
    \/ MarkUserActivityWith(ActivityTimers)
    \/ ChatActiveTimeoutFires
    \/ InitialCheck(1, ActivityEmptyPolls)
    \/ PollTimerFires
    \/ DeferredCallbackRuns(1, ActivityEmptyPolls)
    \/ \E fb \in FallbackChoices(localStorage) : FetchResponse(1, "ok", fb)
    \/ Tick(ActivityInstants, MaxIntervalMs)

SpecActivity == Init /\ [][NextActivity]_vars

----------------------------------------------------------------------------
\* Voice calls: the SDK reports calls that start, end and fail, next to a
\* polling client.
NextVoice ==
    \/ InitializeMessagePolling
    \/ VapiCallStart
    \/ VapiCallEnd
    \/ VapiError
    \/ InitialCheck(1, MaxEmptyPolls)
    \/ PollTimerFires
    \/ DeferredCallbackRuns(1, MaxEmptyPolls)
    \/ \E fb \in FallbackChoices(localStorage) : FetchResponse(1, "ok", fb)
    \/ Tick(PollInstants, MaxIntervalMs)

SpecVoice == Init /\ [][NextVoice]_vars

----------------------------------------------------------------------------
\* Touches on a page with the floating voice button.
TouchInstants == {0, 250, 500, 750}
TouchPositions == {100, 105, 120}

NextTouch ==
    \/ \E onButton \in BOOLEAN, x \in TouchPositions, y \in TouchPositions :
          TouchStart(onButton, x, y)
    \/ \E x \in TouchPositions, y \in TouchPositions : TouchMove(x, y)
    \/ LongPressTimerFires
    \/ TouchEnd
    \/ Tick(TouchInstants, LongPressDelay)

SpecTouch == Init /\ [][NextTouch]_vars

----------------------------------------------------------------------------
\* Sending chat messages, with and without a voice call.
SendMessages == 2       \* sendChatMessage calls in one behaviour
SendTimers == 2         \* outstanding chat-activity timeouts
SendInstants == {0, 150000, 300000}
StrBlank == <<" ">>

InitSend ==
    InitAll({EmptyStorage, StoredHistory(StoredEntries)}, {TRUE}, {NULL}, {"s1"},
            {UnsetContext}, {FittingContainer}, BOOLEAN)

NextSend ==
    \/ \E message \in {StrA, StrBlank}, throws \in BOOLEAN, fb \in FallbackChoices(localStorage) :
          SendChatMessage(message, throws, fb, SendMessages, SendTimers)
    \/ \E i \in 1..SendMessages, outcome \in ChatOutcomes, fb \in FallbackChoices(localStorage) :
          ChatResponse(i, outcome, StrA, fb)
    \/ VapiCallStart
    \/ VapiCallEnd
    \/ \E active \in BOOLEAN : VapiWidgetClassChanges(active)
    \/ ChatActiveTimeoutFires
    \/ Tick(SendInstants, ChatRequestTimeout)

SpecSend == InitSend /\ [][NextSend]_vars

----------------------------------------------------------------------------
\* Clearing the inbox while polls are out.
MaxDeletes == 1         \* DELETE requests outstanding at once
ClearMessages == 2      \* messages the backend ever puts in the inbox
ClearEmptyPolls == 2    \* no fetch is issued once consecutiveEmptyPolls has passed this

NextClear ==
    \/ InitializeMessagePolling
    \/ InitialCheck(1, ClearEmptyPolls)
    \/ PollTimerFires
    \/ DeferredCallbackRuns(1, ClearEmptyPolls)
    \/ \E fb \in FallbackChoices(localStorage) : FetchResponse(1, "ok", fb)
    \/ BackendStoresMessage("assistant", StrA, ClearMessages)
    \/ \E success \in BOOLEAN : ClearSessionMessages(success, MaxDeletes)
    \/ ClearResponse(1)
    \/ Tick(PollInstants, MaxIntervalMs)

SpecClear == Init /\ [][NextClear]_vars

----------------------------------------------------------------------------
\* Properties

\* the step is the continuation of a fetch: its answer has been handled
ResponseStep == Len(inFlight') < Len(inFlight)
\* the step sent a fetch of the inbox
FetchIssued == Len(inFlight') > Len(inFlight)
OkStep == ResponseStep /\ lastOutcome' = "ok"
ErrorStep == ResponseStep /\ lastOutcome' = "error"

C2_PausedUntilActivity ==
    [][/\ (/\ OkStep
           /\ consecutiveEmptyPolls' = 6
           /\ sinceActivity = 601000
           /\ ~isVoiceActive /\ ~isChatActive) => isPaused'
       /\ (isPaused /\ isPaused') => (~FetchIssued /\ ~TimerPending')]_vars

\* C9: once the page's unload handler has called stopMessagePolling(), no
\* inbox fetch is issued and no poll timer is pending any more, even if a
\* deferred callback or a fetch was outstanding at that moment.
C9_StoppedForGood ==
    [][pageUnloaded => (~FetchIssued /\ ~TimerPending')]_vars

\* C10: poll cycles never overlap: no inbox fetch is issued while an earlier
\* one is still in flight, so at most one fetch is outstanding at any time.
C10_NoOverlap == Len(inFlight) <= 1

\* the interval the policy is said to compute
C5_PolicyInterval(voice, chat, idle, emptyPolls) ==
    LET tier == IF voice \/ chat THEN 5000
                ELSE IF idle < 120000 THEN 8000
                ELSE IF idle < 600000 THEN 10000
                ELSE 15000
    IN IF emptyPolls > 25 THEN Min((tier * 12) \div 10, 20000) ELSE tier

\* C5: after every completed poll (new entries, none, a response without
\* success, a failed fetch) on which the pause rule does not apply,
\* currentPollingInterval is 5000 with the voice or chat flag set, else 8000
\* under 120,000 ms since the last activity, else 10,000 under 600,000 ms, else
\* 15,000, and with more than 25 consecutive empty polls min(that x 1.2, 20,000).
C5_PolicyAfterEveryPoll ==
    [][(/\ ResponseStep
        /\ ~PauseCondition(isVoiceActive, isChatActive, sinceActivity,
                           consecutiveEmptyPolls'))
       => currentPollingInterval' =
              C5_PolicyInterval(isVoiceActive, isChatActive, sinceActivity,
                                consecutiveEmptyPolls')]_vars

\* C7 as stated: whenever checkForNewMessages catches a fetch error, a poll
\* timer is pending afterwards, armed with a delay of at least 5000 ms.
C7_AlwaysRescheduled ==
    [][ErrorStep => (TimerPending' /\ messagePollingInterval'.delay >= 5000)]_vars

\* C7, amended: a failed fetch adds 2 to consecutiveEmptyPolls; unless the
\* client is paused when the handler ends, a poll timer is pending afterwards,
\* armed with the current interval, at least 5000 ms; the client is paused
\* then only if it was paused before, or the pause rule held with the penalty
\* counted and the handler cancelled the timer.
C7_RescheduledUnlessPaused ==
    [][ErrorStep =>
          /\ consecutiveEmptyPolls' = consecutiveEmptyPolls + 2
          /\ ~isPaused' =>
                /\ TimerPending'
                /\ messagePollingInterval'.delay >= 5000
                /\ messagePollingInterval'.delay = currentPollingInterval'
                /\ messagePollingInterval'.left = messagePollingInterval'.delay
          /\ isPaused' =>
                \/ isPaused /\ messagePollingInterval' = messagePollingInterval
                \/ /\ PauseCondition(isVoiceActive, isChatActive, sinceActivity,
                                     consecutiveEmptyPolls')
                   /\ ~TimerPending']_vars

\* C7 witness: a failed fetch has just been handled and the next poll is armed.
C7_ErrorRescheduled ==
    /\ lastOutcome = "error"
    /\ consecutiveEmptyPolls >= 2
    /\ ~isPaused
    /\ TimerPending
    /\ messagePollingInterval.left = messagePollingInterval.delay
    /\ messagePollingInterval.delay >= 5000

\* the poll that brings the count of consecutive empty polls to 26 on a page
\* with neither flag set and at least 600,000 ms since the last activity
C6_TwentySixthEmptyPoll ==
    /\ OkStep
    /\ consecutiveEmptyPolls = 25
    /\ consecutiveEmptyPolls' = 26
    /\ ~isVoiceActive /\ ~isChatActive
    /\ sinceActivity >= 600000

C8_NewestDisplayedOldestFirst ==
    [][OkStep =>
          \E i \in 1..Len(inFlight) :
              /\ inFlight' = RemoveAt(inFlight, i)
              /\ LET messages == inFlight[i]
                     k == Len(messages) - lastMessageCount
                 IN IF k > 0
                    THEN /\ displayed' = displayed \o [j \in 1..k |-> messages[k + 1 - j].id]
                         /\ chatHistory'.entries = chatHistory.entries \o
                               [j \in 1..k |-> [role |-> messages[k + 1 - j].role,
                                                content |-> messages[k + 1 - j].content,
                                                source |-> "voice-function"]]
                         /\ lastMessageCount' = Len(messages)
                         /\ consecutiveEmptyPolls' = 0
                    ELSE /\ displayed' = displayed
                         /\ chatHistory'.entries = chatHistory.entries
                         /\ lastMessageCount' = lastMessageCount
                         /\ consecutiveEmptyPolls' = consecutiveEmptyPolls + 1]_vars

\* C8 witness: one poll has displayed three new messages, oldest first.
C8_ThreeDisplayedByOnePoll ==
    /\ lastOutcome = "ok"
    /\ displayed = <<1, 2, 3>>
    /\ Len(lastWrites) = 3
    /\ lastMessageCount = 3
    /\ consecutiveEmptyPolls = 0

\* the transcript entries that hold the pair and came in by voice or by a poll
C3_Entries(pair) ==
    {i \in 1..Len(chatHistory.entries) :
        /\ chatHistory.entries[i].role = pair.role
        /\ chatHistory.entries[i].content = pair.content
        /\ chatHistory.entries[i].source \in {"voice", "voice-function"}}

\* C3: on the chat page, a (role, content) pair delivered twice within
\* 10,000 ms, by voice transcripts, by polls or by one of each, has exactly
\* one entry in window.chatHistory.
C3_DeliveredTwiceOneEntry ==
    (chatMessagesEl /\ elapsed < 10000) =>
        \A pair \in delivered.twice : Cardinality(C3_Entries(pair)) = 1

\* C4: after any sequence of appends, window.chatHistory and every transcript
\* value written to localStorage hold at most 30 entries.
C4_TranscriptCapped ==
    /\ Len(chatHistory.entries) <= 30
    /\ \A i \in 1..Len(lastWrites) : Len(lastWrites[i]) <= 30

\* C11: when the session id first becomes known, the client becomes active:
\* the step that sets currentSessionId leaves a poll timer pending.
C11_ActiveOnceSessionKnown ==
    [][(currentSessionId = NULL /\ currentSessionId' # NULL) => TimerPending']_vars

\* C20: once currentSessionId is set, no call of initializeMessagePolling,
\* startMessagePollingWhenReady or startMessagePolling and no retry changes it,
\* whatever session ids the page holds later.
C20_SessionIdSetOnce ==
    [][currentSessionId # NULL => currentSessionId' = currentSessionId]_vars

\* C20 witness: the client keeps "s1" while the page holds other ids and a
\* poll for "s1" has been answered.
C20_KeptWhilePageChanged ==
    /\ currentSessionId = "s1"
    /\ vapiConfigSessionId = "s2"
    /\ browserSessionId = "s2"
    /\ lastOutcome = "ok"

\* C12: after markUserActivity() returns, from any state,
\* consecutiveEmptyPolls = 0, lastActivity is the current time,
\* currentPollingInterval = 8000 and isPaused = false; and if the client was
\* paused before the call, a poll timer is pending after it.
C12_MarkUserActivityEffects ==
    [][lastOutcome' \in {"mark", "mark-resume"} =>
          /\ consecutiveEmptyPolls' = 0
          /\ sinceActivity' = 0
          /\ currentPollingInterval' = 8000
          /\ ~isPaused'
          /\ isPaused => TimerPending']_vars

\* C12 witness: markUserActivity() has just resumed a client that had paused
\* on the idle tier: the timer is armed anew and the interval is 8000.
C12_MarkedAfterPause ==
    /\ lastOutcome = "mark-resume"
    /\ ~isPaused
    /\ TimerPending
    /\ messagePollingInterval.left = messagePollingInterval.delay
    /\ messagePollingInterval.delay = 15000
    /\ currentPollingInterval = 8000
    /\ sinceActivity = 0
    /\ consecutiveEmptyPolls = 0

\* C13: setVoiceActive(true) sets the voice flag, resets consecutiveEmptyPolls
\* to 0 and lastActivity to the current time and, if the client was paused,
\* unpauses it and arms a poll timer; setVoiceActive(false) clears the flag and
\* leaves lastActivity, consecutiveEmptyPolls, isPaused,
\* currentPollingInterval and the pending timer as they were.
C13_SetVoiceActiveEffects ==
    [][/\ lastOutcome' \in {"voice-on", "voice-resume"} =>
             /\ isVoiceActive'
             /\ consecutiveEmptyPolls' = 0
             /\ sinceActivity' = 0
             /\ isPaused => (~isPaused' /\ TimerPending')
             /\ ~isPaused => UNCHANGED <<isPaused, messagePollingInterval>>
       /\ lastOutcome' = "voice-off" =>
             /\ ~isVoiceActive'
             /\ UNCHANGED <<sinceActivity, consecutiveEmptyPolls, isPaused,
                            currentPollingInterval, messagePollingInterval>>]_vars

\* C13 witness: setVoiceActive(false) has ended a call on a client that is
\* paused, with polls counted and time passed since the last activity.
C13_VoiceOffLeftRest ==
    /\ lastOutcome = "voice-off"
    /\ ~isVoiceActive
    /\ isPaused
    /\ consecutiveEmptyPolls > 0
    /\ sinceActivity > 0

\* C14: an activity signal (markUserActivity() or setVoiceActive(true)) that
\* finds the client paused leaves it not paused with a poll timer pending, and
\* afterwards the timer's callback sends an inbox check and arms the next poll.
C14_ActivityResumesPolling ==
    /\ [][(isPaused /\ lastOutcome' \in {"mark", "mark-resume", "voice-on", "voice-resume"})
             => (~isPaused' /\ TimerPending')]_vars
    /\ (lastOutcome \in {"mark-resume", "voice-resume"})
          ~> (lastOutcome = "check" /\ ~isPaused /\ TimerPending)

\* C14 witness: setVoiceActive(true) has just resumed a paused client.
C14_VoiceResumed ==
    /\ lastOutcome = "voice-resume"
    /\ isVoiceActive
    /\ ~isPaused
    /\ TimerPending
    /\ messagePollingInterval.left = messagePollingInterval.delay

\* C15 as stated: a poll of an active client that completes with neither flag
\* set, at least 600,000 ms since the last activity and at least 5 consecutive
\* empty polls pauses the client.
C15_PausesFromFiveAndSixHundred ==
    [][(/\ OkStep
        /\ ~isPaused
        /\ messagePollingInterval.state # "none"
        /\ ~isVoiceActive /\ ~isChatActive
        /\ sinceActivity >= 600000
        /\ consecutiveEmptyPolls' >= 5) => isPaused']_vars

\* C15, amended: a poll pauses an active client only with neither flag set,
\* more than 600,000 ms since the last activity and more than 5 consecutive
\* empty polls; and a poll answered with data, or failed, under these
\* conditions does pause a client whose timer handle is set.  At exactly
\* 600,000 ms or exactly 5 empty polls the client stays active.
C15_PausesPastFiveAndSixHundred ==
    [][ResponseStep =>
          /\ (~isPaused /\ isPaused') =>
                /\ ~isVoiceActive /\ ~isChatActive
                /\ sinceActivity > 600000
                /\ consecutiveEmptyPolls' > 5
          /\ (/\ lastOutcome' \in {"ok", "error"}
              /\ ~isPaused
              /\ messagePollingInterval.state # "none"
              /\ ~isVoiceActive /\ ~isChatActive
              /\ sinceActivity > 600000
              /\ consecutiveEmptyPolls' > 5) => (isPaused' /\ ~TimerPending')]_vars

\* C15 witness: a poll has completed with exactly 5 consecutive empty polls,
\* exactly 600,000 ms after the last activity, and the client polls on.
C15_ActiveAtFiveAndSixHundred ==
    /\ lastOutcome = "ok"
    /\ consecutiveEmptyPolls = 5
    /\ sinceActivity = 600000
    /\ ~isVoiceActive /\ ~isChatActive
    /\ ~isPaused
    /\ TimerPending

\* C16: every conversation context the page builds (after an append, when the
\* transcript is initialized, for a voice call) is the last 30 entries at most,
\* one line 'User: content' or 'Assistant: content' each, joined by newlines;
\* it is 'Keine vorherigen Nachrichten' for an empty transcript, and never the
\* empty string.
RECURSIVE C16_Lines(_, _)
C16_Lines(entries, k) ==
    LET line == (IF entries[k].role = "user"
                 THEN <<"U", "s", "e", "r", ":", " ">>
                 ELSE <<"A", "s", "s", "i", "s", "t", "a", "n", "t", ":", " ">>)
                \o entries[k].content
    IN IF k = 1 THEN line ELSE C16_Lines(entries, k - 1) \o <<"\n">> \o line

C16_Rendered(entries) ==
    LET n == Min(Len(entries), 30)
        last == [i \in 1..n |-> entries[Len(entries) - n + i]]
    IN IF n = 0 THEN NoPreviousMessages ELSE C16_Lines(last, n)

C16_ContextBuilt ==
    conversationContext.present
    /\ (lastOutcome' \in {"voice-call", "init-history"}
        \/ conversationContext' # conversationContext)

C16_ContextRendersTranscript ==
    [][C16_ContextBuilt =>
          /\ conversationContext'.value = C16_Rendered(chatHistory'.entries)
          /\ conversationContext'.value # <<>>]_vars

\* C16 witness: a call was started on an empty transcript, and the context is the literal
C16_PlaceholderForEmptyTranscript ==
    /\ lastOutcome = "voice-call"
    /\ chatHistory.entries = <<>>
    /\ conversationContext = [present |-> TRUE, value |-> NoPreviousMessages]

\* C17: once clearChatHistory() has run, window.chatHistory is [], and a
\* loadChatHistoryFromStorage() that follows it, under the same session id,
\* returns an empty transcript, whatever localStorage holds for other sessions.
C17_EmptyAfterClear ==
    /\ [](lastOutcome = "clear" => chatHistory = [loaded |-> TRUE, entries |-> <<>>])
    /\ [][lastOutcome = "clear" /\ lastOutcome' = "load" => lastLoad'.entries = <<>>]_vars

\* C18: the tabs of two sessions do not interfere through localStorage.  What
\* this page's session loads (and shows, and sends as context) is what it would
\* load if the other session had stored nothing, and no handler of one tab
\* writes or removes the chatHistory_ entry of the other tab's session.
C18_LoadedWithoutOther ==
    LET alone == [ChatState EXCEPT !.storage[OtherSessionId] = NoEntry]
    IN {loadChatHistoryFromStorage(alone, browserSessionId, fb).entries :
            fb \in FallbackChoices(alone.storage)}

C18_OwnEntriesOnly ==
    /\ lastOutcome' = "other-tab" =>
            localStorage'[StorageKey(browserSessionId)] = localStorage[StorageKey(browserSessionId)]
    /\ lastOutcome' # "other-tab" => localStorage'[OtherSessionId] = localStorage[OtherSessionId]

C18_TabsDoNotInterfere ==
    [][/\ lastOutcome' = "load" => lastLoad'.entries \in C18_LoadedWithoutOther
       /\ (lastOutcome' = "init-history" /\ ~chatHistory.loaded) =>
              /\ chatHistory'.entries \in C18_LoadedWithoutOther
              /\ conversationContext'.value \in
                    {ConversationContextOf(entries) : entries \in C18_LoadedWithoutOther}
       /\ C18_OwnEntriesOnly]_vars

\* C19: on a page with the chat surface, scrollToBottomIfNeeded(true) always
\* ends at the bottom; scrollToBottomIfNeeded(false) ends at the bottom if
\* scrollTop + clientHeight >= scrollHeight - tolerance, with tolerance =
\* 4 x clientHeight kept within 500..1200, and otherwise leaves scrollTop as it was.
C19_Tolerance ==
    IF 4 * chatContainer.clientHeight < 500 THEN 500
    ELSE IF 4 * chatContainer.clientHeight > 1200 THEN 1200
    ELSE 4 * chatContainer.clientHeight

C19_NearBottom ==
    chatContainer.scrollTop + chatContainer.clientHeight
        >= chatContainer.scrollHeight - C19_Tolerance

C19_AtBottom(el) == el.scrollTop = el.scrollHeight - el.clientHeight

C19_ScrollsWithinTolerance ==
    [][(chatContainer.exists /\ lastOutcome' \in {"scroll", "scroll-forced"}) =>
          /\ chatContainer'.scrollHeight = chatContainer.scrollHeight
          /\ chatContainer'.clientHeight = chatContainer.clientHeight
          /\ lastOutcome' = "scroll-forced" => C19_AtBottom(chatContainer')
          /\ (lastOutcome' = "scroll" /\ C19_NearBottom) => C19_AtBottom(chatContainer')
          /\ (lastOutcome' = "scroll" /\ ~C19_NearBottom) =>
                 chatContainer'.scrollTop = chatContainer.scrollTop]_vars

\* C19 witness: on a 100 px viewport the call without force left a viewer
\* alone who was more than 500 px above the bottom
C19_LeftAboveTolerance ==
    /\ lastOutcome = "scroll"
    /\ chatContainer.exists
    /\ chatContainer.clientHeight = 100
    /\ ~C19_NearBottom
    /\ ~C19_AtBottom(chatContainer)

\* C24: the timer that markUserActivity() arms when it resumes a paused client
\* waits the forced 8000 ms, not the interval the paused client had.
C24_ResumeArmsForcedInterval ==
    [][lastOutcome' = "mark-resume" =>
          /\ TimerPending'
          /\ messagePollingInterval'.delay = ActivityInterval]_vars

\* C23: isChatActive is true at every instant less than 300000 ms after the
\* latest markUserActivity() call (whose timeout is then still outstanding).
C23_ChatActiveForFiveMinutes ==
    (chatActiveTimers # {} /\ sinceActivity < ChatActiveTimeout) => isChatActive

C26_TranscriptBefore ==
    IF chatHistory.loaded THEN chatHistory.entries
    ELSE localStorage[StorageKey(browserSessionId)].value

C26_WithOneMore ==
    Append(C26_TranscriptBefore,
           [role |-> IF lastTranscript'.role = "user" THEN "user" ELSE "assistant",
            content |-> lastTranscript'.transcript, source |-> "voice"])

C26_OneEntryPerTranscript ==
    [][(calls'.transcripts # calls.transcripts /\ lastTranscript'.kind = "accepted") =>
          chatHistory'.entries \in {C26_WithOneMore, SliceLast(C26_WithOneMore, 30)}]_vars

\* C29: handleVoiceTranscript drops a transcript as a duplicate only if one of
\* the same role and the same trimmed content was accepted in the last 10000 ms,
\* that is, only if window.processedTranscripts, which holds the pairs accepted
\* and not yet removed by their 10000 ms timeouts, has that very pair.
C29_DroppedOnlyIfSamePair ==
    [][(calls'.transcripts # calls.transcripts /\ lastTranscript'.kind = "duplicate") =>
          \E id \in processedTranscripts :
              id = <<lastTranscript'.role, "-">> \o Trim(lastTranscript'.transcript)]_vars

\* C28: whenever window.isCallActive is false, the delivery client's
\* isVoiceActive is false too.
C28_VoiceFlagFollowsCall == ~isCallActive => ~isVoiceActive

\* C27: a poll displays no inbox entry that was displayed before, and none
\* that a clearSessionMessages call has cleared with success.
C27_DisplayedOnceAndNotAfterClear ==
    [][displayed' # displayed =>
          /\ \A i, j \in 1..Len(displayed') : i # j => displayed'[i] # displayed'[j]
          /\ \A i \in Len(displayed) + 1..Len(displayed') : displayed'[i] \notin clearedIds]_vars

\* C21: sendChatMessage with a message that is not blank appends the user
\* message to the transcript once and takes one route: with a voice call
\* active (window.isCallActive, or the widget showing a call) one vapi.send
\* and no POST /api/chat, whether vapi.send throws or not; with no call active
\* one POST /api/chat and no vapi.send.  A blank message changes nothing.
C21_UserEntry ==
    Append(C26_TranscriptBefore,
           [role |-> "user", content |-> lastSend'.message, source |-> "chat"])

C21_OneAppendOneRoute ==
    [][calls'.sends # calls.sends =>
          IF Trim(lastSend'.message) = <<>>
          THEN /\ UNCHANGED <<pollVars, loopVars, chatVars, chatRequests, typingIndicator>>
               /\ lastSend'.posts = 0 /\ lastSend'.sends = 0
          ELSE /\ chatHistory'.entries \in {C21_UserEntry, SliceLast(C21_UserEntry, 30)}
               /\ Len(lastSend'.appended) = 1
               /\ IF isCallActive \/ vapiWidgetActive
                  THEN /\ lastSend'.sends = 1 /\ lastSend'.posts = 0
                       /\ chatRequests' = chatRequests
                  ELSE /\ lastSend'.posts = 1 /\ lastSend'.sends = 0
                       /\ Len(chatRequests') = Len(chatRequests) + 1]_vars

\* a message went to the call although vapi.send threw, with only the widget
\* saying that a call is active
C21_SentToCallWhenSendThrew ==
    /\ lastSend.kind = "voice"
    /\ lastSend.settled = "caught"
    /\ ~isCallActive
    /\ vapiWidgetActive

\* C22: when POST /api/chat fails (the fetch rejects, the 300000 ms timer
\* aborts it, or the status is not 2xx) sendChatMessage does not reject: the
\* typing indicator is hidden and one assistant entry with the error text is
\* appended to the transcript.
C22_FailureHandled ==
    [][(Len(chatRequests') < Len(chatRequests) /\ lastSend'.kind \in ChatFailures) =>
          /\ lastSend'.settled # "rejected"
          /\ ~typingIndicator'
          /\ Len(lastSend'.appended) = 1
          /\ chatHistory'.entries # chatHistory.entries]_vars

\* C25: on a touch device the voice button is clicked only at the end of a
\* touch that started on the floating button, lasted less than 500 ms and
\* never was more than 10 px from where it started; drag mode is entered only
\* during a touch on the button held 500 ms without such movement; and
\* isDragging is false whenever no touch on the button is in progress.
C25_TapOrDrag ==
    [][/\ lastOutcome' = "tap-click" =>
            touch.onButton /\ touch.held < LongPressDelay /\ ~touch.far
       /\ (floatingButton'.isDragging /\ ~floatingButton.isDragging) =>
            touch.active /\ touch.onButton /\ touch.held >= LongPressDelay /\ ~touch.far
       /\ ~(touch'.active /\ touch'.onButton) => ~floatingButton'.isDragging]_vars

====
